---- MODULE Spec2Model ----
(***************************************************************************)
(* Model of the SMTP/LMTP connection engine of go-smtp (conn.go).          *)
(*                                                                         *)
(* One Conn serves one transport connection.  The serve loop reads a       *)
(* command line and calls Conn.handle(cmd, arg); every action below is one *)
(* such call, translated from the handler it dispatches to, including the  *)
(* deferred recover of handle.  Calls into the collaborators (Backend,     *)
(* Session, the SASL mechanism, the TLS handshake) are nondeterministic    *)
(* choices over what the collaborator can return, a panic included.        *)
(*                                                                         *)
(* Strings that the code slices, trims or splits are sequences of          *)
(* one-character strings, so that the slicing is computed as the code      *)
(* computes it.                                                            *)
(***************************************************************************)
EXTENDS Integers, Sequences, FiniteSets, TLC

\* ------------------------------------------------------------------ bounds

\* Most recipients the peer is let to accumulate when the server sets no limit.
MaxRcptLen == 2
\* Most session objects the collaborators hand out on one connection.
MaxSessions == 2
\* Most rounds of one SASL exchange.
MaxAuthRounds == 2
\* Most lines of one message body (the terminator line not counted).
MaxBody == 2

\* ------------------------------------------------------- strings (Go: strings)

\* strings.ToUpper on one character, over the letters the inputs use.
UpperChar(ch) ==
  CASE ch = "f" -> "F" [] ch = "r" -> "R" [] ch = "o" -> "O" [] ch = "m" -> "M"
    [] ch = "t" -> "T" [] ch = "s" -> "S" [] ch = "i" -> "I" [] ch = "z" -> "Z"
    [] ch = "e" -> "E" [] ch = "p" -> "P" [] ch = "l" -> "L" [] ch = "a" -> "A"
    [] ch = "n" -> "N" [] ch = "b" -> "B"
    [] OTHER -> ch

ToUpper(s) == [i \in 1..Len(s) |-> UpperChar(s[i])]

\* s[lo:hi] of Go with 0-based lo (inclusive) and hi (exclusive).
Slice(s, lo, hi) == SubSeq(s, lo + 1, hi)

RECURSIVE TrimLeft(_, _)
TrimLeft(s, cutset) ==
  IF s # <<>> /\ Head(s) \in cutset THEN TrimLeft(Tail(s), cutset) ELSE s

RECURSIVE TrimRight(_, _)
TrimRight(s, cutset) ==
  IF s # <<>> /\ s[Len(s)] \in cutset
  THEN TrimRight(SubSeq(s, 1, Len(s) - 1), cutset) ELSE s

\* strings.Trim(s, cutset)
Trim(s, cutset) == TrimRight(TrimLeft(s, cutset), cutset)

\* strings.Split(s, sep) for a one-character sep: always at least one piece.
RECURSIVE SplitFrom(_, _, _)
SplitFrom(s, sep, cur) ==
  IF s = <<>> THEN <<cur>>
  ELSE IF Head(s) = sep THEN <<cur>> \o SplitFrom(Tail(s), sep, <<>>)
  ELSE SplitFrom(Tail(s), sep, Append(cur, Head(s)))

Split(s, sep) == SplitFrom(s, sep, <<>>)

\* strings.Fields(s): the non-empty pieces between spaces.
Fields(s) == SelectSeq(Split(s, " "), LAMBDA p : p # <<>>)

HasPrefix(s, ch) == s # <<>> /\ s[1] = ch
HasSuffix(s, ch) == s # <<>> /\ s[Len(s)] = ch

Digits == {"0", "1", "2", "3", "4", "5", "6", "7", "8", "9"}

DigitVal(ch) ==
  CASE ch = "0" -> 0 [] ch = "1" -> 1 [] ch = "2" -> 2 [] ch = "3" -> 3
    [] ch = "4" -> 4 [] ch = "5" -> 5 [] ch = "6" -> 6 [] ch = "7" -> 7
    [] ch = "8" -> 8 [] OTHER -> 9

RECURSIVE DecVal(_, _)
DecVal(s, acc) == IF s = <<>> THEN acc ELSE DecVal(Tail(s), 10 * acc + DigitVal(Head(s)))

\* strconv.ParseInt(s, 10, 32): [ok, val]; a sign is allowed, the value must
\* fit 32 bits.
ParseInt(s) ==
  LET signed == s # <<>> /\ s[1] \in {"+", "-"}
      body == IF signed THEN Tail(s) ELSE s
      mag == DecVal(body, 0)
      val == IF signed /\ s[1] = "-" THEN 0 - mag ELSE mag
  IN IF body = <<>> \/ \E i \in 1..Len(body) : body[i] \notin Digits
     THEN [ok |-> FALSE, val |-> 0]
     ELSE IF val > 2147483647 \/ val < (0 - 2147483647) - 1
     THEN [ok |-> FALSE, val |-> 0]
     ELSE [ok |-> TRUE, val |-> val]

Base64Alphabet == {"A", "B", "Q", "g", "0", "+", "/"}

\* base64.StdEncoding.DecodeString succeeds: whole quanta of four characters
\* of the alphabet, padding only as the last one or two characters.
Base64OK(s) ==
  /\ Len(s) % 4 = 0
  /\ \A i \in 1..Len(s) :
       \/ s[i] \in Base64Alphabet
       \/ s[i] = "=" /\ i >= Len(s) - 1 /\ (i = Len(s) \/ s[Len(s)] = "=")
  /\ (s # <<>> => s[1] # "=")

\* ------------------------------------------------------------------ inputs

\* The verbs the peer sends (handle upper-cases them).
SEND == <<"S", "E", "N", "D">>
SOML == <<"S", "O", "M", "L">>
SAML == <<"S", "A", "M", "L">>
EXPN == <<"E", "X", "P", "N">>
HELP == <<"H", "E", "L", "P">>
TURN == <<"T", "U", "R", "N">>
HELO == <<"H", "E", "L", "O">>
EHLO == <<"E", "H", "L", "O">>
LHLO == <<"L", "H", "L", "O">>
MAIL == <<"M", "A", "I", "L">>
RCPT == <<"R", "C", "P", "T">>
VRFY == <<"V", "R", "F", "Y">>
NOOP == <<"N", "O", "O", "P">>
RSET == <<"R", "S", "E", "T">>
DATA == <<"D", "A", "T", "A">>
QUIT == <<"Q", "U", "I", "T">>
AUTH == <<"A", "U", "T", "H">>
STARTTLS == <<"S", "T", "A", "R", "T", "T", "L", "S">>
XXXX == <<"X", "X", "X", "X">>
Dot == <<".">>
noop == <<"n", "o", "o", "p">>

Unimplemented == {SEND, SOML, SAML, EXPN, HELP, TURN}
Greetings == {HELO, EHLO, LHLO}
KnownVerbs ==
  Unimplemented \cup Greetings \cup
    {MAIL, RCPT, VRFY, NOOP, RSET, DATA, QUIT, AUTH, STARTTLS}

FROM == <<"F", "R", "O", "M", ":">>
TO == <<"T", "O", ":">>
SIZE == <<"S", "I", "Z", "E">>
PLAIN == <<"P", "L", "A", "I", "N">>

\* Arguments of MAIL.
MailBracketed == FROM \o <<"<", "a", ">">>
MailLower == <<"f", "r", "o", "m", ":", "<", "a", ">">>
MailNull == FROM \o <<"<", ">">>
MailBare == FROM \o <<"a">>
MailShort == FROM
MailNoFrom == TO \o <<"<", "a", "a", ">">>
MailSizeFits == MailBracketed \o <<" ">> \o SIZE \o <<"=", "1">>
MailSizeOver == MailBracketed \o <<" ">> \o SIZE \o <<"=", "9">>
MailSizeNaN == MailBracketed \o <<" ">> \o SIZE \o <<"=", "x">>
MailBadParam == MailBracketed \o <<" ", "A", "=", "B", "=", "Q">>
MailArgs ==
  {MailBracketed, MailLower, MailNull, MailBare, MailShort, MailNoFrom,
   MailSizeFits, MailSizeOver, MailSizeNaN, MailBadParam}

\* Arguments of RCPT.
RcptA == TO \o <<"<", "a", ">">>
RcptB == TO \o <<"<", "b", ">">>
RcptLower == <<"t", "o", ":", "b">>
RcptShort == TO
RcptArgs == {RcptA, RcptB, RcptLower, RcptShort}

\* Arguments of the greeting, of DATA and of AUTH.
GreetArgs == {<<>>, <<"a">>}
DataArgs == {<<>>, <<"x">>}
AuthNone == <<>>
AuthUnknown == <<"B", "A", "D">>
AuthPlain == PLAIN
AuthPlainIR == <<"p", "l", "a", "i", "n", " ", "Q", "Q", "=", "=">>
AuthBadIR == PLAIN \o <<" ", "!">>
AuthArgs == {AuthNone, AuthUnknown, AuthPlain, AuthPlainIR, AuthBadIR}

\* Lines the peer sends inside a SASL exchange.
SaslLines == {<<"Q", "Q", "=", "=">>, <<"!">>}

\* What a collaborator call can do: return nil, return an *SMTPError, return
\* another error, or panic.
Outcomes == {"ok", "smtperr", "err", "panic"}

\* The reply code a collaborator's *SMTPError carries (one representative,
\* distinct from every code the engine itself chooses).
SMTPErrorCode == "450"

\* ------------------------------------------------------------ configuration

\* Server: the options conn.go reads.  auths is the mechanism registry.
\* Sizes are counted in body lines.
ServerOptions ==
  [LMTP : BOOLEAN, Strict : BOOLEAN, AuthDisabled : BOOLEAN,
   AllowInsecureAuth : BOOLEAN, TLSConfig : BOOLEAN,
   MaxMessageBytes : {0, 1}, MaxRecipients : {0, 1}]

auths == {PLAIN}

\* -------------------------------------------------------------------- state

VARIABLES
  server,        \* Conn.server: the options, fixed at construction
  helo,          \* Conn.helo: the declared identity, <<>> when not greeted
  nbrErrors,     \* Conn.nbrErrors
  session,       \* Conn.session: 0 is nil, else the session object's id
  fromReceived,  \* Conn.fromReceived
  recipients,    \* Conn.recipients
  isTLS,         \* Conn.conn is a *tls.Conn
  handshakeOK,   \* the TLS handshake on Conn.conn succeeded
  closed,        \* Conn.conn.Close() was called
  escaped,       \* a panic left Conn.handle
  nextSid,       \* the id of the next session object a collaborator creates
  logouts,       \* per session object, how often its Logout was called
  bodyLeft,      \* lines of a message body (terminator included) still unread
  line,          \* the command line handled last: [cmd, arg, fromBody]
  log,           \* what handling that line did, in order: replies, calls, events
  mailEv,        \* successful MAILs since the last reset, greeting or upgrade
  rcptEv,        \* successful RCPTs since the last reset, greeting or upgrade
  mailRs,        \* successful MAILs since the last reset
  rcptRs,        \* successful RCPTs since the last reset
  unrecTotal,    \* unrecognized commands handled on this connection
  onlyUnrec,     \* every command handled on this connection was unrecognized
  locker,        \* Conn.locker: the thread holding the mutex, "" when free
  pc,            \* per thread, the guarded operation it is in and where
  touching       \* the threads reading or writing Conn.session right now

vars ==
  <<server, helo, nbrErrors, session, fromReceived, recipients, isTLS,
    handshakeOK, closed, escaped, nextSid, logouts, bodyLeft, line, log,
    mailEv, rcptEv, mailRs, rcptRs, unrecTotal, onlyUnrec, locker, pc,
    touching>>

\* The connection as one value, for the handlers below: the fields of Conn,
\* the transport's condition, and the log of the command being handled.
\* panic is set while a panic is unwinding to handle's deferred function.
Cur ==
  [server |-> server, helo |-> helo, nbrErrors |-> nbrErrors,
   session |-> session, fromReceived |-> fromReceived,
   recipients |-> recipients, isTLS |-> isTLS, handshakeOK |-> handshakeOK,
   closed |-> closed, escaped |-> escaped, nextSid |-> nextSid,
   logouts |-> logouts, bodyLeft |-> bodyLeft, log |-> <<>>, panic |-> FALSE]

\* Log entries.  A reply carries its code and, in LMTP fan-out, the recipient
\* it is prefixed with; a call names the collaborator operation and the
\* address or session it is about; an event is a step of the engine itself.
Reply(code) == [k |-> "reply", v |-> code, about |-> <<>>]
ReplyTo(code, rcpt) == [k |-> "reply", v |-> code, about |-> rcpt]
Call(op, about) == [k |-> "call", v |-> op, about |-> about]
Event(e) == [k |-> "event", v |-> e, about |-> <<>>]

Logged(c, e) == [c EXCEPT !.log = Append(@, e)]

\* WriteResponse: one numeric reply to the peer.  Write errors are ignored
\* by the code; a *tls.Conn whose handshake failed refuses every write.
WriteResponse(c, code) ==
  IF c.isTLS /\ ~c.handshakeOK
  THEN Logged(c, Event("write failed"))
  ELSE Logged(c, Reply(code))

\* A panic starts unwinding.
Panic(c) == [c EXCEPT !.panic = TRUE]

\* Session and SetSession: the guarded accessors of the session handle.
Session(c) == c.session

SetSession(c, s) == Logged([c EXCEPT !.session = s], Event("SetSession"))

\* A collaborator creates a session object and the engine installs it.
NewSession(c) == [SetSession(c, c.nextSid) EXCEPT !.nextSid = @ + 1]

\* Conn.Close: log the session out if there is one, then close the
\* transport.  logout is what Session.Logout does.
Close(c, logout) ==
  LET s == Session(c)
      c1 == IF s # 0
            THEN Logged([c EXCEPT !.logouts[s] = @ + 1], Call("Logout", <<>>))
            ELSE c
  IN IF s # 0 /\ logout = "panic"
     THEN Panic(c1)
     ELSE Logged([c1 EXCEPT !.closed = TRUE], Event("conn.Close"))

\* Mutant of reset: the sender flag survives the reset.
reset_KeepsSender(c, hook) ==
  LET c1 == IF c.session # 0 THEN Logged(c, Call("Reset", <<>>)) ELSE c
  IN IF c.session # 0 /\ hook = "panic"
     THEN Panic(c1)
     ELSE Logged([c1 EXCEPT !.recipients = <<>>], Event("reset"))

\* Conn.reset: the session's Reset hook if a session exists, then the
\* envelope is cleared.  hook is what Session.Reset does.
reset(c, hook) ==
  LET c1 == IF c.session # 0 THEN Logged(c, Call("Reset", <<>>)) ELSE c
  IN IF c.session # 0 /\ hook = "panic"
     THEN Panic(c1)
     ELSE Logged([c1 EXCEPT !.fromReceived = FALSE, !.recipients = <<>>],
                 Event("reset"))

\* Conn.TLSConnectionState's ok, and Conn.authAllowed.
TLSConnectionState(c) == c.isTLS

authAllowed(c) ==
  ~c.server.AuthDisabled /\ (TLSConnectionState(c) \/ c.server.AllowInsecureAuth)

\* The closure threshold of unrecognizedCommand.
MaxErrors == 3

\* Mutant of unrecognizedCommand: the threshold is reached one command early.
unrecognizedCommand_OffByOne(c, logout) ==
  LET c1 == [WriteResponse(c, "500") EXCEPT !.nbrErrors = @ + 1]
  IN IF c1.nbrErrors >= MaxErrors
     THEN Close(WriteResponse(c1, "500"), logout)
     ELSE c1

unrecognizedCommand(c, logout) ==
  LET c1 == [WriteResponse(c, "500") EXCEPT !.nbrErrors = @ + 1]
  IN IF c1.nbrErrors > MaxErrors
     THEN Close(WriteResponse(c1, "500"), logout)
     ELSE c1

\* ----------------------------------------------------------------- greeting

\* parseHelloArgument: the domain is the argument up to its first space; an
\* empty domain is an error.
parseHelloArgument(arg) ==
  LET domain == Split(arg, " ")[1]
  IN [ok |-> domain # <<>>, domain |-> domain]

\* The capabilities the extended greeting adds to the server's own.
GreetCaps(c) ==
  (IF c.server.TLSConfig /\ ~TLSConnectionState(c)
   THEN <<Event("cap STARTTLS")>> ELSE <<>>)
  \o (IF authAllowed(c) THEN <<Event("cap AUTH")>> ELSE <<>>)
  \o (IF c.server.MaxMessageBytes > 0 THEN <<Event("cap SIZE")>> ELSE <<>>)

handleGreet(c, enhanced, arg) ==
  LET p == parseHelloArgument(arg)
  IN IF ~p.ok
     THEN WriteResponse(c, "501")
     ELSE LET c1 == Logged([c EXCEPT !.helo = p.domain], Event("helo"))
          IN IF ~enhanced
             THEN WriteResponse(c1, "250")
             ELSE WriteResponse([c1 EXCEPT !.log = @ \o GreetCaps(c1)], "250")

\* --------------------------------------------------------------------- MAIL

\* parseArgs on the ESMTP parameters: each non-empty token is KEY or
\* KEY=VALUE; a token with more than one "=" is an error.
parseArgsOK(tokens) ==
  \A i \in 1..Len(tokens) :
    tokens[i] = <<>> \/ Len(Split(tokens[i], "=")) <= 2

\* args[key] of the mapping parseArgs returns: the value of the last token
\* with that key, <<>> when there is none or it is a bare KEY.
RECURSIVE parseArgsGet(_, _)
parseArgsGet(tokens, key) ==
  IF tokens = <<>> THEN <<>>
  ELSE LET last == tokens[Len(tokens)]
           m == Split(last, "=")
       IN IF last # <<>> /\ m[1] = key
          THEN (IF Len(m) = 2 THEN m[2] ELSE <<>>)
          ELSE parseArgsGet(SubSeq(tokens, 1, Len(tokens) - 1), key)

\* The reply to a collaborator's error: its own code when it is an
\* *SMTPError, the call site's generic code otherwise.
ErrorReply(c, outcome, generic) ==
  WriteResponse(c, IF outcome = "smtperr" THEN SMTPErrorCode ELSE generic)

\* Mutant of handleMailFrom: the empty address is not refused.
handleMailFrom_NoEmptyCheck(c, arg, mail) ==
  IF Len(arg) < 6 \/ ToUpper(Slice(arg, 0, 5)) # FROM
  THEN WriteResponse(c, "501")
  ELSE
    LET fromArgs == Split(Trim(Slice(arg, 5, Len(arg)), {" "}), " ")
        from == Trim(fromArgs[1], {"<", ">", " "})
        params == SubSeq(fromArgs, 2, Len(fromArgs))
        size == ParseInt(parseArgsGet(params, SIZE))
        c1 == Logged(c, Call("Mail", from))
    IN IF c.server.Strict
          /\ (~HasPrefix(fromArgs[1], "<") \/ ~HasSuffix(fromArgs[1], ">"))
       THEN WriteResponse(c, "501")
       ELSE IF Len(fromArgs) > 1 /\ ~parseArgsOK(params)
       THEN WriteResponse(c, "501")
       ELSE IF Len(fromArgs) > 1 /\ parseArgsGet(params, SIZE) # <<>> /\ ~size.ok
       THEN WriteResponse(c, "501")
       ELSE IF Len(fromArgs) > 1 /\ parseArgsGet(params, SIZE) # <<>>
               /\ c.server.MaxMessageBytes > 0
               /\ size.val > c.server.MaxMessageBytes
       THEN WriteResponse(c, "552")
       ELSE IF mail = "panic" THEN Panic(c1)
       ELSE IF mail # "ok" THEN ErrorReply(c1, mail, "451")
       ELSE Logged([WriteResponse(c1, "250") EXCEPT !.fromReceived = TRUE],
                   Event("fromReceived"))

\* handleMail from the syntax check on (conn.go 255-306).
handleMailFrom(c, arg, mail) ==
  IF Len(arg) < 6 \/ ToUpper(Slice(arg, 0, 5)) # FROM
  THEN WriteResponse(c, "501")
  ELSE
    LET fromArgs == Split(Trim(Slice(arg, 5, Len(arg)), {" "}), " ")
        from == Trim(fromArgs[1], {"<", ">", " "})
        params == SubSeq(fromArgs, 2, Len(fromArgs))
        size == ParseInt(parseArgsGet(params, SIZE))
        c1 == Logged(c, Call("Mail", from))
    IN IF c.server.Strict
          /\ (~HasPrefix(fromArgs[1], "<") \/ ~HasSuffix(fromArgs[1], ">"))
       THEN WriteResponse(c, "501")
       ELSE IF from = <<>>
       THEN WriteResponse(c, "501")
       ELSE IF Len(fromArgs) > 1 /\ ~parseArgsOK(params)
       THEN WriteResponse(c, "501")
       ELSE IF Len(fromArgs) > 1 /\ parseArgsGet(params, SIZE) # <<>> /\ ~size.ok
       THEN WriteResponse(c, "501")
       ELSE IF Len(fromArgs) > 1 /\ parseArgsGet(params, SIZE) # <<>>
               /\ c.server.MaxMessageBytes > 0
               /\ size.val > c.server.MaxMessageBytes
       THEN WriteResponse(c, "552")
       ELSE IF mail = "panic" THEN Panic(c1)
       ELSE IF mail # "ok" THEN ErrorReply(c1, mail, "451")
       ELSE Logged([WriteResponse(c1, "250") EXCEPT !.fromReceived = TRUE],
                   Event("fromReceived"))

\* Mutant of handleMail: the declared identity is not required.
handleMail_NoHeloCheck(c, arg, login, mail) ==
  IF Session(c) = 0
  THEN LET c1 == Logged(c, Call("AnonymousLogin", <<>>))
       IN IF login = "panic" THEN Panic(c1)
          ELSE IF login # "ok" THEN ErrorReply(c1, login, "502")
          ELSE handleMailFrom(NewSession(c1), arg, mail)
  ELSE handleMailFrom(c, arg, mail)

\* login is what Backend.AnonymousLogin does, mail what Session.Mail does.
handleMail(c, arg, login, mail) ==
  IF c.helo = <<>>
  THEN WriteResponse(c, "502")
  ELSE IF Session(c) = 0
  THEN LET c1 == Logged(c, Call("AnonymousLogin", <<>>))
       IN IF login = "panic" THEN Panic(c1)
          ELSE IF login # "ok" THEN ErrorReply(c1, login, "502")
          ELSE handleMailFrom(NewSession(c1), arg, mail)
  ELSE handleMailFrom(c, arg, mail)

\* --------------------------------------------------------------------- RCPT

\* Mutant of handleRcpt: the limit is compared one recipient late.
handleRcpt_LimitOffByOne(c, arg, rcpt) ==
  IF ~c.fromReceived
  THEN WriteResponse(c, "502")
  ELSE IF Len(arg) < 4 \/ ToUpper(Slice(arg, 0, 3)) # TO
  THEN WriteResponse(c, "501")
  ELSE
    LET recipient == Trim(Slice(arg, 3, Len(arg)), {"<", ">", " "})
        c1 == Logged(c, Call("Rcpt", recipient))
    IN IF c.server.MaxRecipients > 0
          /\ Len(c.recipients) > c.server.MaxRecipients
       THEN WriteResponse(c, "552")
       ELSE IF rcpt = "panic" THEN Panic(c1)
       ELSE IF rcpt # "ok" THEN ErrorReply(c1, rcpt, "451")
       ELSE WriteResponse(
              Logged([c1 EXCEPT !.recipients = Append(@, recipient)],
                     Event("append")),
              "250")

\* rcpt is what Session.Rcpt does.
handleRcpt(c, arg, rcpt) ==
  IF ~c.fromReceived
  THEN WriteResponse(c, "502")
  ELSE IF Len(arg) < 4 \/ ToUpper(Slice(arg, 0, 3)) # TO
  THEN WriteResponse(c, "501")
  ELSE
    LET recipient == Trim(Slice(arg, 3, Len(arg)), {"<", ">", " "})
        c1 == Logged(c, Call("Rcpt", recipient))
    IN IF c.server.MaxRecipients > 0
          /\ Len(c.recipients) >= c.server.MaxRecipients
       THEN WriteResponse(c, "552")
       ELSE IF rcpt = "panic" THEN Panic(c1)
       ELSE IF rcpt # "ok" THEN ErrorReply(c1, rcpt, "451")
       ELSE WriteResponse(
              Logged([c1 EXCEPT !.recipients = Append(@, recipient)],
                     Event("append")),
              "250")

\* --------------------------------------------------------------------- AUTH

\* One round of the mechanism is a record: next is what sasl.Next does
\* ("done", "doneSet" when it installs a session through SetSession before
\* reporting completion, "challenge", or "smtperr", "err", "panic"), and for
\* a challenge read tells whether ReadLine succeeds and resp is the line.

\* Mutant of handleAuthLoop: completion is answered 235 without a session.
RECURSIVE handleAuthLoop_NoSessionCheck(_, _)
handleAuthLoop_NoSessionCheck(c, rounds) ==
  LET r == Head(rounds)
      c1 == Logged(c, Call("Next", <<>>))
      c2 == IF r.next = "doneSet" THEN NewSession(c1) ELSE c1
      c3 == WriteResponse(c1, "334")
  IN IF r.next = "panic" THEN Panic(c1)
     ELSE IF r.next \in {"smtperr", "err"} THEN ErrorReply(c1, r.next, "454")
     ELSE IF r.next \in {"done", "doneSet"}
     THEN WriteResponse(c2, "235")
     ELSE IF r.read = "fail" THEN Logged(c3, Event("read failed"))
     ELSE IF ~Base64OK(r.resp) THEN WriteResponse(c3, "454")
     ELSE IF Len(rounds) = 1 THEN c3
     ELSE handleAuthLoop_NoSessionCheck(c3, Tail(rounds))

\* The loop of handleAuth (conn.go 374-410) over the rounds still to come.
RECURSIVE handleAuthLoop(_, _)
handleAuthLoop(c, rounds) ==
  LET r == Head(rounds)
      c1 == Logged(c, Call("Next", <<>>))
      c2 == IF r.next = "doneSet" THEN NewSession(c1) ELSE c1
      c3 == WriteResponse(c1, "334")
  IN IF r.next = "panic" THEN Panic(c1)
     ELSE IF r.next \in {"smtperr", "err"} THEN ErrorReply(c1, r.next, "454")
     ELSE IF r.next \in {"done", "doneSet"}
     THEN (IF Session(c2) # 0 THEN WriteResponse(c2, "235") ELSE c2)
     ELSE IF r.read = "fail" THEN Logged(c3, Event("read failed"))
     ELSE IF ~Base64OK(r.resp) THEN WriteResponse(c3, "454")
     ELSE IF Len(rounds) = 1 THEN c3
     ELSE handleAuthLoop(c3, Tail(rounds))

handleAuth(c, arg, rounds) ==
  IF c.helo = <<>>
  THEN WriteResponse(c, "502")
  ELSE
    LET parts == Fields(arg)
        mechanism == ToUpper(parts[1])
    IN IF Len(parts) = 0 THEN WriteResponse(c, "502")
       ELSE IF Len(parts) > 1 /\ ~Base64OK(parts[2]) THEN c
       ELSE IF mechanism \notin auths THEN WriteResponse(c, "504")
       ELSE handleAuthLoop(c, rounds)

\* ----------------------------------------------------------------- STARTTLS

\* handshake is what tlsConn.Handshake does ("ok" or "fail"), hook what
\* Session.Reset does.
handleStartTLS(c, handshake, hook) ==
  IF TLSConnectionState(c) THEN WriteResponse(c, "502")
  ELSE IF ~c.server.TLSConfig THEN WriteResponse(c, "502")
  ELSE
    LET c1 == Logged(WriteResponse(c, "220"), Call("Handshake", <<>>))
        c2 == IF handshake # "ok" THEN WriteResponse(c1, "550") ELSE c1
        c3 == Logged([c2 EXCEPT !.isTLS = TRUE,
                                !.handshakeOK = (handshake = "ok")],
                     Event("swap"))
    IN reset(c3, hook)

\* --------------------------------------------------------------------- DATA

\* The framing reader over a body of `body` lines followed by the
\* terminator.  pos counts the lines taken from the transport (the
\* terminator is line body + 1), n the lines the size limit still allows.
newDataReader(c, body) ==
  [pos |-> 0, body |-> body, limited |-> c.server.MaxMessageBytes > 0,
   n |-> c.server.MaxMessageBytes]

\* One Read: end-of-stream at the terminator, the size-limit error once the
\* body exceeds the limit, a line of data otherwise.
Read(r) ==
  IF r.pos > r.body THEN [r |-> r, res |-> "eof"]
  ELSE IF r.pos = r.body THEN [r |-> [r EXCEPT !.pos = @ + 1], res |-> "eof"]
  ELSE IF r.limited /\ r.n <= 0 THEN [r |-> r, res |-> "too large"]
  ELSE [r |-> [r EXCEPT !.pos = @ + 1, !.n = @ - 1], res |-> "data"]

\* Session.Data reading: at most k Reads, none after one that returned no data.
RECURSIVE ReadUpTo(_, _)
ReadUpTo(r, k) ==
  IF k = 0 THEN r
  ELSE LET x == Read(r)
       IN IF x.res = "data" THEN ReadUpTo(x.r, k - 1) ELSE x.r

\* io.Copy(ioutil.Discard, r): Reads until one returns end-of-stream or an error.
RECURSIVE Copy(_)
Copy(r) ==
  LET x == Read(r)
  IN IF x.res = "data" THEN Copy(x.r) ELSE x.r

\* The lines of the body (terminator included) the transport still holds.
Unread(r) == r.body + 1 - r.pos

\* Mutant of DataReplies: only the first recipient is answered.
DataReplies_FirstOnly(c, code, rcpts) ==
  IF rcpts = <<>> THEN c ELSE Logged(c, ReplyTo(code, Head(rcpts)))

\* The final replies of handleData (conn.go 479-486).
RECURSIVE DataReplies(_, _, _)
DataReplies(c, code, rcpts) ==
  IF rcpts = <<>> THEN c
  ELSE DataReplies(Logged(c, ReplyTo(code, Head(rcpts))), code, Tail(rcpts))

\* Mutant of handleData: DATA is accepted without a recipient.
handleData_NoRecipientCheck(c, arg, body, reads, data, hook) ==
  IF arg # <<>> THEN WriteResponse(c, "501")
  ELSE IF ~c.fromReceived THEN WriteResponse(c, "502")
  ELSE
    LET c1 == Logged(WriteResponse(c, "354"), Call("Data", <<>>))
        r1 == ReadUpTo(newDataReader(c, body), reads)
        r2 == Copy(r1)
        code == IF data = "ok" THEN "250"
                ELSE IF data = "smtperr" THEN SMTPErrorCode ELSE "554"
        c2 == [c1 EXCEPT !.bodyLeft = Unread(r2)]
        c3 == IF c.server.LMTP
              THEN DataReplies(c2, code, c2.recipients)
              ELSE WriteResponse(c2, code)
    IN IF data = "panic"
       THEN Panic([c1 EXCEPT !.bodyLeft = Unread(r1)])
       ELSE reset(c3, hook)

\* body is the number of lines the peer sends before the terminator, reads
\* the number of Reads Session.Data makes, data what Session.Data returns,
\* hook what Session.Reset does.
handleData(c, arg, body, reads, data, hook) ==
  IF arg # <<>> THEN WriteResponse(c, "501")
  ELSE IF ~c.fromReceived \/ Len(c.recipients) = 0 THEN WriteResponse(c, "502")
  ELSE
    LET c1 == Logged(WriteResponse(c, "354"), Call("Data", <<>>))
        r1 == ReadUpTo(newDataReader(c, body), reads)
        r2 == Copy(r1)
        code == IF data = "ok" THEN "250"
                ELSE IF data = "smtperr" THEN SMTPErrorCode ELSE "554"
        c2 == [c1 EXCEPT !.bodyLeft = Unread(r2)]
        c3 == IF c.server.LMTP
              THEN DataReplies(c2, code, c2.recipients)
              ELSE WriteResponse(c2, code)
    IN IF data = "panic"
       THEN Panic([c1 EXCEPT !.bodyLeft = Unread(r1)])
       ELSE reset(c3, hook)

\* ----------------------------------------------------------------- dispatch

\* What the collaborators do during one command, when nothing else is said.
Calm ==
  [login |-> "ok", mail |-> "ok", rcpt |-> "ok", data |-> "ok", hook |-> "ok",
   logout |-> "ok", relogout |-> "ok", handshake |-> "ok", rounds |-> <<>>,
   body |-> 0, reads |-> 0]

\* The deferred function of handle: after a panic, reply 421 and Close.  A
\* panic raised inside a deferred function is not recovered by it.
recover(c, relogout) ==
  LET c1 == Logged([c EXCEPT !.panic = FALSE], Event("recover"))
      c2 == Close(WriteResponse(c1, "421"), relogout)
  IN IF c2.panic THEN [c2 EXCEPT !.escaped = TRUE] ELSE c2

\* Mutant of dispatch: an unimplemented verb is handled as an unrecognized one.
dispatch_UnimplementedCounts(c, cmd, arg, o) ==
  IF cmd = <<>> THEN WriteResponse(c, "500")
  ELSE
    LET u == ToUpper(cmd)
        lmtp == u = LHLO
        enhanced == lmtp \/ u = EHLO
        g1 == IF c.server.LMTP /\ ~lmtp THEN WriteResponse(c, "500") ELSE c
        g2 == IF ~c.server.LMTP /\ lmtp THEN WriteResponse(g1, "500") ELSE g1
        rs == reset(c, o.hook)
    IN CASE u \in Unimplemented -> unrecognizedCommand(c, o.logout)
         [] u \in Greetings -> handleGreet(g2, enhanced, arg)
         [] u = MAIL -> handleMail(c, arg, o.login, o.mail)
         [] u = RCPT -> handleRcpt(c, arg, o.rcpt)
         [] u = VRFY -> WriteResponse(c, "252")
         [] u = NOOP -> WriteResponse(c, "250")
         [] u = RSET -> IF rs.panic THEN rs ELSE WriteResponse(rs, "250")
         [] u = DATA -> handleData(c, arg, o.body, o.reads, o.data, o.hook)
         [] u = QUIT -> Close(WriteResponse(c, "221"), o.logout)
         [] u = AUTH -> IF c.server.AuthDisabled
                        THEN unrecognizedCommand(c, o.logout)
                        ELSE handleAuth(c, arg, o.rounds)
         [] u = STARTTLS -> handleStartTLS(c, o.handshake, o.hook)
         [] OTHER -> unrecognizedCommand(c, o.logout)

\* The switch of handle (conn.go 89-134).
dispatch(c, cmd, arg, o) ==
  IF cmd = <<>> THEN WriteResponse(c, "500")
  ELSE
    LET u == ToUpper(cmd)
        lmtp == u = LHLO
        enhanced == lmtp \/ u = EHLO
        g1 == IF c.server.LMTP /\ ~lmtp THEN WriteResponse(c, "500") ELSE c
        g2 == IF ~c.server.LMTP /\ lmtp THEN WriteResponse(g1, "500") ELSE g1
        rs == reset(c, o.hook)
    IN CASE u \in Unimplemented -> WriteResponse(c, "502")
         [] u \in Greetings -> handleGreet(g2, enhanced, arg)
         [] u = MAIL -> handleMail(c, arg, o.login, o.mail)
         [] u = RCPT -> handleRcpt(c, arg, o.rcpt)
         [] u = VRFY -> WriteResponse(c, "252")
         [] u = NOOP -> WriteResponse(c, "250")
         [] u = RSET -> IF rs.panic THEN rs ELSE WriteResponse(rs, "250")
         [] u = DATA -> handleData(c, arg, o.body, o.reads, o.data, o.hook)
         [] u = QUIT -> Close(WriteResponse(c, "221"), o.logout)
         [] u = AUTH -> IF c.server.AuthDisabled
                        THEN unrecognizedCommand(c, o.logout)
                        ELSE handleAuth(c, arg, o.rounds)
         [] u = STARTTLS -> handleStartTLS(c, o.handshake, o.hook)
         [] OTHER -> unrecognizedCommand(c, o.logout)

\* Conn.handle: the switch under the deferred recover.
handle(c, cmd, arg, o) ==
  LET r == dispatch(c, cmd, arg, o)
  IN IF r.panic THEN recover(r, o.relogout) ELSE r

\* ------------------------------------------------------------- the actions

HasEvent(lg, e) == \E i \in 1..Len(lg) : lg[i] = Event(e)
HasCall(lg, op) == \E i \in 1..Len(lg) : lg[i].k = "call" /\ lg[i].v = op

\* The reply codes of a log, in order.
Out(lg) ==
  LET replies == SelectSeq(lg, LAMBDA e : e.k = "reply")
  IN [i \in 1..Len(replies) |-> replies[i].v]

\* The event counters tell none, one and more than one apart.
Bump(n) == IF n < 2 THEN n + 1 ELSE n

\* The peer sees "command unrecognized": a verb handle does not know, or
\* AUTH on a server with authentication disabled.
IsUnrecognized(cmd) ==
  /\ cmd # <<>>
  /\ \/ ToUpper(cmd) \notin KnownVerbs
     \/ ToUpper(cmd) = AUTH /\ server.AuthDisabled

\* The serve loop is at ReadLine and can read a command line: the transport
\* is open, no panic ended the loop, and the transport is not a *tls.Conn
\* whose handshake failed (every read of one fails).
CanRead ==
  ~closed /\ ~escaped /\ line.read = "waiting" /\ (isTLS => handshakeOK)

\* The line read is the next line of the transport: while a message body is
\* unread it is a line of that body, and the last of those is the terminator.
NextLineCanBe(cmd) == bodyLeft = 1 => cmd = Dot

\* The state after handle(cmd, arg) returned r.
Commit(r, cmd, arg) ==
  /\ server' = r.server
  /\ helo' = r.helo
  /\ nbrErrors' = r.nbrErrors
  /\ session' = r.session
  /\ fromReceived' = r.fromReceived
  /\ recipients' = r.recipients
  /\ isTLS' = r.isTLS
  /\ handshakeOK' = r.handshakeOK
  /\ closed' = r.closed
  /\ escaped' = r.escaped
  /\ nextSid' = r.nextSid
  /\ logouts' = r.logouts
  /\ bodyLeft' = IF HasCall(r.log, "Data") THEN r.bodyLeft
                 ELSE IF bodyLeft > 0 THEN bodyLeft - 1 ELSE 0
  /\ line' = [cmd |-> cmd, arg |-> arg, fromBody |-> bodyLeft > 0,
              read |-> "handled"]
  /\ log' = r.log
  /\ mailEv' = IF HasEvent(r.log, "reset") \/ HasEvent(r.log, "helo")
                  \/ HasEvent(r.log, "swap") THEN 0
               ELSE IF HasEvent(r.log, "fromReceived") THEN Bump(mailEv)
               ELSE mailEv
  /\ rcptEv' = IF HasEvent(r.log, "reset") \/ HasEvent(r.log, "helo")
                  \/ HasEvent(r.log, "swap") THEN 0
               ELSE IF HasEvent(r.log, "append") THEN 1
               ELSE rcptEv
  /\ mailRs' = IF HasEvent(r.log, "reset") THEN 0
               ELSE IF HasEvent(r.log, "fromReceived") THEN 1
               ELSE mailRs
  /\ rcptRs' = IF HasEvent(r.log, "reset") THEN 0
               ELSE IF HasEvent(r.log, "append") THEN 1
               ELSE rcptRs
  /\ unrecTotal' = IF IsUnrecognized(cmd) THEN unrecTotal + 1 ELSE unrecTotal
  /\ onlyUnrec' = (onlyUnrec /\ IsUnrecognized(cmd))
  /\ UNCHANGED <<locker, pc, touching>>

\* One command line read and handled.
Handle(cmd, arg, o) ==
  /\ CanRead
  /\ NextLineCanBe(cmd)
  /\ Commit(handle(Cur, cmd, arg, o), cmd, arg)

PanicOrNot == {"ok", "panic"}

\* A second panic, in the Logout of the deferred function, needs a first.
Relogout(first) == IF "panic" \in first THEN PanicOrNot ELSE {"ok"}

\* The rounds of one SASL exchange: challenges the peer answers with valid
\* base64, then a round that ends the exchange.
GoingRound == [next |-> "challenge", read |-> "ok", resp |-> <<"Q", "Q", "=", "=">>]

LastRounds ==
  {[GoingRound EXCEPT !.next = n] : n \in {"done", "doneSet", "smtperr", "err", "panic"}}
  \cup {[GoingRound EXCEPT !.read = "fail"], [GoingRound EXCEPT !.resp = <<"!">>]}

Exchanges ==
  {[i \in 1..n |-> IF i < n THEN GoingRound ELSE last] :
     n \in 1..MaxAuthRounds, last \in LastRounds}

HandleEmpty == Handle(<<>>, <<>>, Calm)

HandleUnimplemented == \E cmd \in Unimplemented : Handle(cmd, <<>>, Calm)

HandleGreeting == \E cmd \in Greetings, arg \in GreetArgs : Handle(cmd, arg, Calm)

\* A fault of Session.Mail is explored with the plain bracketed argument; the
\* backend is consulted only while no session exists.
HandleMail ==
  \E arg \in MailArgs, login \in Outcomes, mail \in Outcomes :
    /\ mail # "ok" => arg = MailBracketed
    /\ login # "ok" => session = 0 /\ mail = "ok"
    /\ \E re \in Relogout({login, mail}) :
         Handle(MAIL, arg, [Calm EXCEPT !.login = login, !.mail = mail,
                                        !.relogout = re])

HandleRcpt ==
  \E arg \in RcptArgs, rcpt \in Outcomes :
    /\ rcpt # "ok" => arg = RcptA
    /\ rcpt = "ok" => Len(recipients) < MaxRcptLen
    /\ \E re \in Relogout({rcpt}) :
         Handle(RCPT, arg, [Calm EXCEPT !.rcpt = rcpt, !.relogout = re])

HandleVrfy == Handle(VRFY, <<>>, Calm)

HandleNoop == \E cmd \in {NOOP, noop} : Handle(cmd, <<>>, Calm)

HandleRset ==
  \E hook \in PanicOrNot :
    \E re \in Relogout({hook}) :
      Handle(RSET, <<>>, [Calm EXCEPT !.hook = hook, !.relogout = re])

\* Session.Data reads nothing, or reads until the reader returns no data.
HandleData ==
  \E arg \in DataArgs, body \in 0..MaxBody, data \in Outcomes, hook \in PanicOrNot :
    /\ (arg # <<>> \/ ~fromReceived \/ recipients = <<>>) =>
         body = 0 /\ data = "ok" /\ hook = "ok"
    /\ data = "panic" => hook = "ok"
    /\ \E reads \in {0, body + 1}, re \in Relogout({data, hook}) :
         Handle(DATA, arg, [Calm EXCEPT !.body = body, !.reads = reads,
                                        !.data = data, !.hook = hook,
                                        !.relogout = re])

HandleQuit ==
  \E logout \in PanicOrNot :
    \E re \in Relogout({logout}) :
      Handle(QUIT, <<>>, [Calm EXCEPT !.logout = logout, !.relogout = re])

\* The mechanism's faults and challenges are explored with the plain argument.
HandleAuth ==
  \E arg \in AuthArgs, rounds \in Exchanges, logout \in PanicOrNot :
    /\ arg # AuthPlain => rounds = <<[GoingRound EXCEPT !.next = "done"]>>
    /\ logout = "panic" => server.AuthDisabled /\ arg = AuthNone
    /\ server.AuthDisabled => arg = AuthNone
    /\ \A i \in 1..Len(rounds) : rounds[i].next = "doneSet" => nextSid <= MaxSessions
    /\ \E re \in Relogout({logout, rounds[Len(rounds)].next}) :
         Handle(AUTH, arg, [Calm EXCEPT !.rounds = rounds, !.logout = logout,
                                        !.relogout = re])

HandleStartTLS ==
  \E handshake \in {"ok", "fail"}, hook \in PanicOrNot :
    \E re \in Relogout({hook}) :
      Handle(STARTTLS, <<>>, [Calm EXCEPT !.handshake = handshake, !.hook = hook,
                                          !.relogout = re])

HandleUnknown ==
  \E cmd \in {XXXX, Dot}, logout \in PanicOrNot :
    \E re \in Relogout({logout}) :
      Handle(cmd, <<>>, [Calm EXCEPT !.logout = logout, !.relogout = re])

\* What is left unchanged by the steps that handle no command.
Aside(r, read) ==
  /\ closed' = r.closed
  /\ logouts' = r.logouts
  /\ log' = r.log
  /\ line' = [cmd |-> <<>>, arg |-> <<>>, fromBody |-> FALSE, read |-> read]
  /\ UNCHANGED <<server, helo, nbrErrors, session, fromReceived, recipients,
                 isTLS, handshakeOK, escaped, nextSid, bodyLeft, mailEv, rcptEv,
                 mailRs, rcptRs, unrecTotal, onlyUnrec, locker, pc, touching>>

\* Conn.greet: the 220 greeting, before the first command is read.
Greet ==
  /\ line.read = "new"
  /\ Aside(WriteResponse(Cur, "220"), "greeted")

\* Conn.Reject: the server turns the new connection away.
Reject ==
  /\ line.read = "new"
  /\ Aside(Close(WriteResponse(Cur, "421"), "ok"), "rejected")

\* The serve loop goes (back) to ReadLine and waits for the peer's next line.
AwaitLine ==
  /\ line.read \in {"greeted", "handled"}
  /\ ~closed /\ ~escaped
  /\ Aside(Cur, "waiting")

\* ReadLine fails (the peer is gone, a deadline expired, the TLS handshake
\* had failed): the serve loop ends and closes the connection.
ReadFail ==
  /\ line.read = "waiting"
  /\ ~closed /\ ~escaped
  /\ Aside(Close(Cur, "ok"), "failed")

\* ------------------------------------------------------- the session handle

\* The threads that reach the session handle: the command loop of the
\* connection, and an inspector outside it that calls Session().
Threads == {"loop", "inspector"}

\* The operations that read or write Conn.session.  The command loop makes
\* all three (Session also from Close, handleMail, handleAuth, handleData);
\* the inspector only reads.
Ops(t) == IF t = "loop" THEN {"Session", "SetSession", "reset"} ELSE {"Session"}

Idle == [op |-> "", at |-> "idle"]

At(t, o, at) == [pc EXCEPT ![t] = [op |-> o, at |-> at]]

\* What the guarded operations leave alone.
HandleOnly ==
  UNCHANGED <<server, helo, nbrErrors, isTLS, handshakeOK, closed, escaped,
              logouts, bodyLeft, line, log, mailEv, rcptEv, mailRs, rcptRs,
              unrecTotal, onlyUnrec>>

\* Thread t calls operation o.
Enter(t, o) ==
  /\ pc[t] = Idle
  /\ o \in Ops(t)
  /\ o = "SetSession" => nextSid <= MaxSessions
  /\ pc' = At(t, o, "Lock")
  /\ UNCHANGED <<locker, touching, session, nextSid, fromReceived, recipients>>
  /\ HandleOnly

\* Mutant of Lock: the mutex is taken without waiting for it to be free.
Lock_NoWait(t) ==
  /\ pc[t].at = "Lock"
  /\ locker' = t
  /\ pc' = At(t, pc[t].op, "locked")
  /\ UNCHANGED <<touching, session, nextSid, fromReceived, recipients>>
  /\ HandleOnly

\* c.locker.Lock(): blocks until the mutex is free.
Lock(t) ==
  /\ pc[t].at = "Lock"
  /\ locker = ""
  /\ locker' = t
  /\ pc' = At(t, pc[t].op, "locked")
  /\ UNCHANGED <<touching, session, nextSid, fromReceived, recipients>>
  /\ HandleOnly

\* The access to c.session begins ...
Begin(t) ==
  /\ pc[t].at = "locked"
  /\ touching' = touching \cup {t}
  /\ pc' = At(t, pc[t].op, "access")
  /\ UNCHANGED <<locker, session, nextSid, fromReceived, recipients>>
  /\ HandleOnly

\* ... and ends: Session has read the handle, SetSession has written it,
\* reset has read it and cleared the envelope.
End(t) ==
  /\ pc[t].at = "access"
  /\ touching' = touching \ {t}
  /\ pc' = At(t, pc[t].op, "Unlock")
  /\ session' = IF pc[t].op = "SetSession" THEN nextSid ELSE session
  /\ nextSid' = IF pc[t].op = "SetSession" THEN nextSid + 1 ELSE nextSid
  /\ fromReceived' = IF pc[t].op = "reset" THEN FALSE ELSE fromReceived
  /\ recipients' = IF pc[t].op = "reset" THEN <<>> ELSE recipients
  /\ UNCHANGED locker
  /\ HandleOnly

\* The deferred c.locker.Unlock().
Unlock(t) ==
  /\ pc[t].at = "Unlock"
  /\ locker' = ""
  /\ pc' = [pc EXCEPT ![t] = Idle]
  /\ UNCHANGED <<touching, session, nextSid, fromReceived, recipients>>
  /\ HandleOnly

\* Between guarded operations the command loop fills the envelope of a
\* session: handleMail sets the sender flag, handleRcpt appends a recipient.
Envelope ==
  /\ pc["loop"] = Idle
  /\ session # 0
  /\ \/ ~fromReceived /\ fromReceived' = TRUE /\ UNCHANGED recipients
     \/ /\ fromReceived /\ Len(recipients) < MaxRcptLen
        /\ recipients' = Append(recipients, <<"a">>)
        /\ UNCHANGED fromReceived
  /\ UNCHANGED <<locker, pc, touching, session, nextSid>>
  /\ HandleOnly

\* The command loop and the inspector, interleaved at every access.
LockNext ==
  \/ \E t \in Threads, o \in {"Session", "SetSession", "reset"} : Enter(t, o)
  \/ \E t \in Threads : Lock(t)
  \/ \E t \in Threads : Begin(t)
  \/ \E t \in Threads : End(t)
  \/ \E t \in Threads : Unlock(t)
  \/ Envelope

\* -------------------------------------------------------- the specification

\* The options of the servers explored: a base server and every server that
\* differs from it in one option.
BaseServer ==
  [LMTP |-> FALSE, Strict |-> FALSE, AuthDisabled |-> FALSE,
   AllowInsecureAuth |-> FALSE, TLSConfig |-> FALSE,
   MaxMessageBytes |-> 0, MaxRecipients |-> 0]

Servers ==
  {s \in ServerOptions :
     Cardinality({f \in DOMAIN BaseServer : s[f] # BaseServer[f]}) <= 1}

Init ==
  /\ server \in Servers
  /\ helo = <<>>
  /\ nbrErrors = 0
  /\ session = 0
  /\ fromReceived = FALSE
  /\ recipients = <<>>
  /\ isTLS = FALSE
  /\ handshakeOK = FALSE
  /\ closed = FALSE
  /\ escaped = FALSE
  /\ nextSid = 1
  /\ logouts = [s \in 1..MaxSessions |-> 0]
  /\ bodyLeft = 0
  /\ line = [cmd |-> <<>>, arg |-> <<>>, fromBody |-> FALSE, read |-> "new"]
  /\ log = <<>>
  /\ mailEv = 0
  /\ rcptEv = 0
  /\ mailRs = 0
  /\ rcptRs = 0
  /\ unrecTotal = 0
  /\ onlyUnrec = TRUE
  /\ locker = ""
  /\ pc = [t \in Threads |-> Idle]
  /\ touching = {}

Next ==
  \/ Greet
  \/ Reject
  \/ AwaitLine
  \/ ReadFail
  \/ HandleEmpty
  \/ HandleUnimplemented
  \/ HandleGreeting
  \/ HandleMail
  \/ HandleRcpt
  \/ HandleVrfy
  \/ HandleNoop
  \/ HandleRset
  \/ HandleData
  \/ HandleQuit
  \/ HandleAuth
  \/ HandleStartTLS
  \/ HandleUnknown

Spec == Init /\ [][Next]_vars

\* The session handle under the command loop and a concurrent inspector.
LockSpec == Init /\ [][LockNext]_vars

\* ---------------------------------------------------------------- the claims

\* The command line handled last had verb v.
Handled(v) == line.read = "handled" /\ line.cmd # <<>> /\ ToUpper(line.cmd) = v

\* The step handles a command line with verb v.
Handles(v) ==
  line'.read = "handled" /\ line.read = "waiting" /\ line'.cmd # <<>>
    /\ ToUpper(line'.cmd) = v

\* DATA was accepted: answered 354 and handed to the session.
DataAccepted(lg) == Out(lg) # <<>> /\ Out(lg)[1] = "354" /\ HasCall(lg, "Data")

\* C1 as stated, for a DATA command without argument: it is accepted if and
\* only if exactly one MAIL and at least one RCPT succeeded since the last
\* reset, greeting or transport upgrade, and is refused with 502 otherwise.
C1_DataIffExactlyOneSender ==
  [][(Handles(DATA) /\ line'.arg = <<>>) =>
       /\ DataAccepted(log') <=> (mailEv = 1 /\ rcptEv >= 1)
       /\ ~DataAccepted(log') => Out(log') = <<"502">>]_vars

\* C1 amended: a DATA command is accepted if and only if it carries no
\* argument and at least one MAIL and at least one RCPT succeeded since the
\* last reset (a greeting resets nothing); otherwise it is refused, with 501
\* when it carries an argument and with 502 when it does not.
C1_DataIffEnvelopeSinceReset ==
  [][Handles(DATA) =>
       /\ DataAccepted(log') <=> (line'.arg = <<>> /\ mailRs >= 1 /\ rcptRs >= 1)
       /\ ~DataAccepted(log') =>
            Out(log') = IF line'.arg # <<>> THEN <<"501">> ELSE <<"502">>]_vars

\* A DATA command was accepted after a greeting that followed the MAIL.
C1_Witness == Handled(DATA) /\ DataAccepted(log) /\ HasEvent(log, "reset")

\* C2: every completed reset (RSET, after DATA, after STARTTLS) leaves
\* fromReceived false and recipients empty, and while no MAIL has succeeded
\* since, every RCPT is refused with 502 without reaching the session.
C2_ResetRequiresNewMail ==
  [][/\ HasEvent(log', "reset") =>
          ~fromReceived' /\ recipients' = <<>> /\ mailRs' = 0
     /\ (Handles(RCPT) /\ mailRs = 0) =>
          /\ Out(log') = <<"502">>
          /\ ~HasCall(log', "Rcpt")
          /\ recipients' = <<>>]_vars

\* A RCPT is refused with 502 on a connection whose session exists: the
\* envelope it would extend is gone.
C2_Witness ==
  /\ Handled(RCPT) /\ Out(log) = <<"502">>
  /\ session # 0 /\ mailRs = 0 /\ line.arg = RcptA

\* C3: after a successful STARTTLS upgrade the declared identity and the
\* session of before the upgrade are no longer in effect.
C3_UpgradeVoidsIdentity ==
  (Handled(STARTTLS) /\ HasEvent(log, "swap") /\ handshakeOK) =>
    helo = <<>> /\ session = 0

\* C4: the transport is a TLS transport only when the handshake succeeded.
C4_TLSOnlyAfterHandshake == isTLS => handshakeOK

C6_AnyRcptAtLimitIs552 ==
  [][/\ server.MaxRecipients > 0 => Len(recipients) <= server.MaxRecipients
     /\ (Handles(RCPT) /\ server.MaxRecipients > 0
         /\ Len(recipients) >= server.MaxRecipients) =>
          /\ Out(log') = <<"552">>
          /\ ~HasCall(log', "Rcpt")
          /\ recipients' = recipients]_vars

\* The argument has the TO: prefix handleRcpt requires.
RcptWellFormed(arg) == Len(arg) >= 4 /\ ToUpper(Slice(arg, 0, 3)) = TO

\* C6 amended: with M > 0 configured, a RCPT with a well-formed TO: argument
\* issued when M recipients are accepted is answered 552 without reaching
\* the session; no RCPT issued then changes the recipients, and the
\* recipients never exceed M.
C6_RcptAtLimitIs552 ==
  [][/\ server.MaxRecipients > 0 => Len(recipients) <= server.MaxRecipients
     /\ (Handles(RCPT) /\ server.MaxRecipients > 0
         /\ Len(recipients) >= server.MaxRecipients) =>
          /\ RcptWellFormed(line'.arg) => Out(log') = <<"552">>
          /\ ~HasCall(log', "Rcpt")
          /\ recipients' = recipients]_vars

\* A RCPT was answered 552 with the limit reached.
C6_Witness ==
  /\ Handled(RCPT) /\ Out(log) = <<"552">>
  /\ server.MaxRecipients > 0 /\ Len(recipients) = server.MaxRecipients

\* C7: when handleData returns after an accepted DATA, the transport holds
\* no unread line of the body, and no line handled as a command is a line of
\* a message body.
C7_BodyConsumedToTerminator ==
  /\ (Handled(DATA) /\ DataAccepted(log) /\ ~HasEvent(log, "recover")) =>
       bodyLeft = 0
  /\ ~line.fromBody

\* C8: a panic raised while handling a command never leaves handle, and is
\* answered 421 with the connection closed.
C8_PanicCaughtAtDispatch ==
  /\ ~escaped
  /\ HasEvent(log, "recover") =>
       closed /\ \E i \in 1..Len(Out(log)) : Out(log)[i] = "421"

C10_EveryCommandAnswered ==
  (line.read = "handled" /\ ~HasEvent(log, "read failed")) => Out(log) # <<>>

\* C11: when a command during which SetSession installed a session through
\* the mechanism of AUTH has been handled, the envelope is empty: the sender
\* flag is clear and there are no recipients.
C11_SetSessionResetsEnvelope ==
  (Handled(AUTH) /\ HasEvent(log, "SetSession")) =>
    ~fromReceived /\ recipients = <<>>

\* C12: a QUIT handled in any state is answered 221 first and the transport
\* is closed after that reply; and whenever the transport is closed while a
\* session is installed, that session's Logout was called before.
C12_QuitRepliesThenCloses ==
  /\ Handled(QUIT) =>
       /\ Out(log) # <<>> /\ Out(log)[1] = "221"
       /\ closed
       /\ \E i, j \in 1..Len(log) :
            i < j /\ log[i] = Reply("221") /\ log[j] = Event("conn.Close")
  /\ \A j \in 1..Len(log) :
       (log[j] = Event("conn.Close") /\ session # 0) =>
         \E i \in 1..(j - 1) : log[i] = Call("Logout", <<>>)

\* C13: every thread reading or writing the session handle holds the
\* connection's lock, so no two accesses to the handle overlap.
C13_SessionAccessUnderLock ==
  /\ \A t \in touching : locker = t
  /\ Cardinality(touching) <= 1

\* The command loop is writing the handle in SetSession while the inspector
\* waits for the lock in Session.
C13_Witness ==
  /\ touching = {"loop"} /\ pc["loop"].op = "SetSession"
  /\ pc["inspector"] = [op |-> "Session", at |-> "Lock"]

\* C14: the sender flag is set or a recipient is held only with a declared
\* identity; and a MAIL, RCPT, DATA or AUTH handled without a declared
\* identity is refused with a 5xx reply, reaches no collaborator and changes
\* neither the session nor the envelope.
C14_EnvelopeNeedsIdentity ==
  [][/\ (fromReceived' \/ recipients' # <<>>) => helo' # <<>>
     /\ (helo = <<>> /\ (Handles(MAIL) \/ Handles(RCPT) \/ Handles(DATA)
                         \/ Handles(AUTH))) =>
          /\ Out(log') # <<>>
          /\ \A i \in 1..Len(Out(log')) : Out(log')[i] \in {"500", "501", "502"}
          /\ \A i \in 1..Len(log') : log'[i].k # "call"
          /\ session' = session /\ fromReceived' = fromReceived
          /\ recipients' = recipients /\ helo' = helo]_vars

\* A MAIL with a well-formed argument was refused for want of a greeting.
C14_Witness ==
  /\ Handled(MAIL) /\ line.arg = MailBracketed
  /\ helo = <<>> /\ Out(log) = <<"502">> /\ ~fromReceived

\* C15 as stated: handling an unimplemented verb (SEND, SOML, SAML, EXPN,
\* HELP, TURN) increments the error counter.
C15_UnimplementedCounts ==
  [][(\E v \in Unimplemented : Handles(v)) => nbrErrors' = nbrErrors + 1]_vars

\* C15 amended: an unimplemented verb is answered one 502, leaves the error
\* counter unchanged and never closes the connection, whatever the counter.
C15_UnimplementedNotCounted ==
  [][(\E v \in Unimplemented : Handles(v)) =>
       /\ Out(log') = <<"502">>
       /\ nbrErrors' = nbrErrors
       /\ ~closed']_vars

\* An unimplemented verb was handled with the counter at the threshold and
\* the connection stayed open.
C15_Witness ==
  /\ \E v \in Unimplemented : Handled(v)
  /\ nbrErrors = MaxErrors /\ ~closed /\ Out(log) = <<"502">>

\* Session.Data returned: the entry after its call is a reply, and not the
\* recovery of a panic.
DataReturned(lg) ==
  Len(lg) >= 3 /\ lg[2] = Call("Data", <<>>) /\ lg[3].k = "reply"

\* C16: after a DATA transfer the final replies follow the 354 directly: in
\* LMTP mode one per recipient, in the order of acceptance, all with the same
\* code and each about its recipient; otherwise a single one.  The envelope
\* is reset right after them and not before, and no other reply is written
\* unless a panic of the reset hook is recovered.
C16_DataRepliesPerRecipient ==
  [][(Handles(DATA) /\ DataAccepted(log') /\ DataReturned(log')) =>
       LET n == IF server.LMTP THEN Len(recipients) ELSE 1
       IN /\ Len(log') > 2 + n
          /\ \E code \in {"250", SMTPErrorCode, "554"} :
               \A i \in 1..n :
                 log'[2 + i] = IF server.LMTP THEN ReplyTo(code, recipients[i])
                               ELSE Reply(code)
          /\ log'[3 + n] \in {Call("Reset", <<>>), Event("reset")}
          /\ \A i \in 1..Len(log') : log'[i] = Event("reset") => i > 2 + n
          /\ HasEvent(log', "reset") => recipients' = <<>> /\ ~fromReceived'
          /\ ~HasEvent(log', "recover") => Len(Out(log')) = 1 + n]_vars

\* An LMTP transfer to the same recipient accepted twice was answered twice.
C16_Witness ==
  /\ Handled(DATA) /\ server.LMTP /\ DataReturned(log) /\ Len(log) >= 5
  /\ log[3] = ReplyTo("250", <<"a">>) /\ log[4] = log[3]
  /\ HasEvent(log, "reset") /\ recipients = <<>>

\* The mechanism reported completion without error: nothing follows the last
\* call of Next but a session installed by the mechanism and the 235.
AuthCompleted(lg) ==
  \E i \in 1..Len(lg) :
    /\ lg[i] = Call("Next", <<>>)
    /\ \A j \in (i + 1)..Len(lg) : lg[j] \in {Event("SetSession"), Reply("235")}

\* The exchange ended in failure: unknown mechanism, a peer response that is
\* not base64, an error of the mechanism, or its panic.
AuthFailed(lg) ==
  \E i \in 1..Len(Out(lg)) : Out(lg)[i] \in {"504", "454", SMTPErrorCode, "421"}

\* C17: an AUTH exchange is answered 235 if and only if the mechanism
\* reported completion without error and a session exists then; the 235 is
\* the last reply; and an exchange that fails is not answered 235 and leaves
\* the session handle as it was.
C17_AuthSuccessIffSession ==
  [][(Handles(AUTH) /\ ~server.AuthDisabled) =>
       /\ (\E i \in 1..Len(log') : log'[i] = Reply("235"))
            <=> (AuthCompleted(log') /\ session' # 0)
       /\ (\E i \in 1..Len(log') : log'[i] = Reply("235")) =>
            log'[Len(log')] = Reply("235")
       /\ AuthFailed(log') =>
            /\ \A i \in 1..Len(log') : log'[i] # Reply("235")
            /\ session' = session]_vars

\* After a challenge the mechanism installed a session and the exchange was
\* answered 235.
C17_Witness ==
  /\ Handled(AUTH) /\ Out(log) = <<"334", "235">>
  /\ HasEvent(log, "SetSession") /\ session # 0

\* The greeting verb does not match the server's mode.
GreetingMismatch(cmd) ==
  /\ ToUpper(cmd) \in Greetings
  /\ server.LMTP # (ToUpper(cmd) = LHLO)

\* C18: a greeting whose verb does not match the server's mode is answered a
\* single 500 and leaves the declared identity unchanged.
C18_MismatchedGreetingRejected ==
  [][(line.read = "waiting" /\ line'.read = "handled"
      /\ GreetingMismatch(line'.cmd)) =>
       Out(log') = <<"500">> /\ helo' = helo]_vars

\* C19: a MAIL from a greeted peer that is refused for syntax or size (501,
\* 552) does not consult the backend, installs no session and leaves the
\* state of the engine unchanged.
C19_RejectedMailChangesNothing ==
  [][(Handles(MAIL) /\ helo # <<>> /\ Out(log') \in {<<"501">>, <<"552">>}) =>
       /\ ~HasCall(log', "AnonymousLogin")
       /\ ~HasEvent(log', "SetSession")
       /\ session' = session /\ nextSid' = nextSid
       /\ helo' = helo /\ fromReceived' = fromReceived
       /\ recipients' = recipients /\ nbrErrors' = nbrErrors]_vars

\* C20: once the transport is closed, every session installed on the
\* connection has had its Logout called exactly once.
C20_LogoutExactlyOnce ==
  closed => \A s \in 1..(nextSid - 1) : logouts[s] = 1

====
